---- MODULE Spec2Model ----
(***************************************************************************)
(* The corpus parser and validator of scripts/corpus-test.js (the          *)
(* record-emitting CorpusParser, field this.tests) and of                  *)
(* scripts/corpus-parser.js (the section-building CorpusParser, field      *)
(* this.sections), as a state machine.                                     *)
(*                                                                         *)
(* JavaScript strings are sequences of one-character strings, so that      *)
(* startsWith, trim, split and the regular expressions of the source are   *)
(* computed on characters.  A file path is never inspected by the code and *)
(* is an atom.                                                             *)
(***************************************************************************)
EXTENDS Integers, Sequences, FiniteSets, TLC

VARIABLES
    this,       \* the CorpusParser instance: [tests |-> ...] or [sections |-> ...]
    frame,      \* the locals of the parse call in progress (parse is synchronous)
    pc,         \* per caller: where its call stands
    call,       \* per caller: the operation it called and its arguments
    ret,        \* per caller: what its call returned or threw
    val,        \* per caller: the locals of validateCorpus (tests, results, position)
    engineLog,  \* the grammar.parse calls made so far, in order
    active,     \* the callers that use the instance in this run
    normArg,    \* normalizeTree applied on its own: the argument ...
    normOut,    \* ... and the successive results
    normVariant, \* normalizeTree applied to the same text in other white space
    cli         \* the validate command of the command line, when one runs

vars == <<this, frame, pc, call, ret, val, engineLog, active, normArg, normOut, normVariant, cli>>

-----------------------------------------------------------------------------
(* Bounds of the model. *)

\* Longest corpus text, in lines, of the exhaustively enumerated inputs.
MaxLines == 3
\* The same when two callers share the instance.
MaxLinesShared == 1
\* Longest string normalizeTree is applied to on its own.
MaxStrLen == 5
\* Longest string in other white space it is then applied to.
MaxVariantLen == 4
MaxFiles == 2

-----------------------------------------------------------------------------
(* JavaScript values and string functions. *)

\* null, for object references
Null == [isNull |-> TRUE]
\* null, for the filepath parameter (parse's default)
NullPath == "<null>"
\* let startHeaderIndex = NaN
NaN == -1

\* The characters \s matches and trim() removes.
WhiteSpace == {" ", "\t", "\n"}

Last(s) == s[Len(s)]
Front(s) == SubSeq(s, 1, Len(s) - 1)
Tail2(s, n) == SubSeq(s, n + 1, Len(s))

\* startsWith looking at no more than the first two characters of the prefix.
StartsWithShort(s, p) ==
    LET n == IF Len(p) > 2 THEN 2 ELSE Len(p)
    IN  Len(s) >= n /\ SubSeq(s, 1, n) = SubSeq(p, 1, n)

\* String.prototype.startsWith
StartsWith(s, p) == Len(s) >= Len(p) /\ SubSeq(s, 1, Len(p)) = p

\* The length of the longest prefix of s whose characters are all in set cs.
RECURSIVE LeadRun(_, _)
LeadRun(s, cs) ==
    IF s = <<>> \/ s[1] \notin cs THEN 0 ELSE 1 + LeadRun(Tail(s), cs)

\* The length of the longest suffix of s whose characters are all in set cs.
RECURSIVE TrailRun(_, _)
TrailRun(s, cs) ==
    IF s = <<>> \/ Last(s) \notin cs THEN 0 ELSE 1 + TrailRun(Front(s), cs)

TrimStart(s) == Tail2(s, LeadRun(s, WhiteSpace))
TrimEnd(s) == SubSeq(s, 1, Len(s) - TrailRun(s, WhiteSpace))
\* String.prototype.trim
Trim(s) == TrimEnd(TrimStart(s))

\* String.prototype.indexOf("\n"), 1-based; 0 when there is none.
IndexOfLF(s) ==
    IF \E k \in 1..Len(s) : s[k] = "\n"
    THEN CHOOSE k \in 1..Len(s) : s[k] = "\n" /\ \A j \in 1..(k - 1) : s[j] # "\n"
    ELSE 0

\* content.split("\n"): the pieces between line feeds; never empty.
RECURSIVE Split(_)
Split(s) ==
    LET n == IndexOfLF(s)
    IN  IF n = 0 THEN <<s>>
        ELSE <<SubSeq(s, 1, n - 1)>> \o Split(Tail2(s, n))

\* Array.prototype.join("\n")
RECURSIVE Join(_)
Join(ls) ==
    IF ls = <<>> THEN <<>>
    ELSE IF Len(ls) = 1 THEN ls[1]
    ELSE ls[1] \o <<"\n">> \o Join(Tail(ls))

\* ToIntegerOrInfinity of a slice bound: NaN becomes 0.
ToInteger(x) == IF x = NaN THEN 0 ELSE x
\* x + 1 in JavaScript numbers: NaN + 1 is NaN.
PlusOne(x) == IF x = NaN THEN NaN ELSE x + 1
Clamp(x, n) == IF x < 0 THEN 0 ELSE IF x > n THEN n ELSE x
\* Array.prototype.slice(start, end) for non-negative or NaN bounds
\* (0-based, end exclusive).
Slice(a, start, end) ==
    LET from == Clamp(ToInteger(start), Len(a))
        to   == Clamp(ToInteger(end), Len(a))
    IN  IF from < to THEN SubSeq(a, from + 1, to) ELSE <<>>

\* line.replace(/^mmm+\s*/, ""): the leading run of three or more marker
\* characters and the white space after it are removed; no match, no change.
StripLead(line, m) ==
    LET k == LeadRun(line, {m})
    IN  IF k < 3 THEN line
        ELSE LET rest == Tail2(line, k)
             IN  Tail2(rest, LeadRun(rest, WhiteSpace))

\* s.replace(/\s*mmm+$/, ""): the trailing run of three or more marker
\* characters and the white space before it are removed (the leftmost match
\* starts at the white space preceding the whole trailing run).
StripTrail(s, m) ==
    LET k == TrailRun(s, {m})
    IN  IF k < 3 THEN s
        ELSE TrimEnd(SubSeq(s, 1, Len(s) - k))

\* The name, or the whole line when nothing is left of it.
HeaderNameOrLine(line, m) ==
    IF StripTrail(StripLead(line, m), m) = <<>> THEN line
    ELSE StripTrail(StripLead(line, m), m)

\* line.replace(/^===+\s*/, "").replace(/\s*===+$/, "")
HeaderName(line, m) == StripTrail(StripLead(line, m), m)

-----------------------------------------------------------------------------
(* The objects both parsers build. *)

Eq3 == <<"=", "=", "=">>
Dash3 == <<"-", "-", "-">>
LF == <<"\n">>

\* A property read of an object that may lack it.
Undefined == [isUndefined |-> TRUE]
Get(obj, key) == IF key \in DOMAIN obj THEN obj[key] ELSE Undefined

\* currentExample = { name, source: "", tree: "", metadata: { line, separator } }
ExampleObject(line, i) ==
    [name     |-> HeaderName(line, "-"),
     source   |-> <<>>,
     tree     |-> <<>>,
     metadata |-> [line |-> i + 1, separator |-> line]]

\* The body with the mode chosen anew at every line: source unless the trimmed
\* line starts with "(".
CollectContentPerLine(f, line) ==
    IF f.currentExample = Null THEN f
    ELSE IF f.currentExample.source = <<>> /\ Trim(line) = <<>> THEN f
    ELSE LET tree == StartsWith(Trim(line), <<"(">>)
             g    == [f EXCEPT !.parsingSource = ~tree, !.parsingTree = tree]
         IN  IF tree THEN [g EXCEPT !.currentExample.tree = @ \o line \o LF]
             ELSE [g EXCEPT !.currentExample.source = @ \o line \o LF]

\* The body of `if (currentExample) { ... }` for a line that is no header:
\* blank lines before any source are skipped, a line whose trimmed text starts
\* with "(" switches from source to tree, and the line is appended to the
\* buffer of the current mode.
CollectContent(f, line) ==
    IF f.currentExample = Null THEN f
    ELSE IF f.currentExample.source = <<>> /\ Trim(line) = <<>> THEN f
    ELSE LET switch == f.parsingSource /\ StartsWith(Trim(line), <<"(">>)
             src    == IF switch THEN FALSE ELSE f.parsingSource
             tree   == IF switch THEN TRUE ELSE f.parsingTree
             g      == [f EXCEPT !.parsingSource = src, !.parsingTree = tree]
         IN  IF src THEN [g EXCEPT !.currentExample.source = @ \o line \o LF]
             ELSE IF tree THEN [g EXCEPT !.currentExample.tree = @ \o line \o LF]
             ELSE g

-----------------------------------------------------------------------------
(* CorpusParser.parse of scripts/corpus-test.js: this.tests. *)

\* The test object pushed when a header closes an Example.
TestObject(section, example, filepath) ==
    [title    |-> section.name,
     name     |-> section.name \o <<" ", "-", " ">> \o example.name,
     code     |-> Trim(example.source),
     parsed   |-> Trim(example.tree),
     metadata |-> [filepath    |-> filepath,
                   sectionName |-> section.name,
                   exampleName |-> example.name,
                   sectionLine |-> section.metadata.line,
                   exampleLine |-> example.metadata.line,
                   description |-> Trim(section.metadata.description)]]

\* The test object pushed after the loop for the Example still open.
LastTestObject(section, example, filepath) ==
    [title    |-> section.name,
     code     |-> Trim(section.metadata.description),
     parsed   |-> Trim(example.tree),
     filepath |-> filepath,
     metadata |-> [sectionLine |-> section.metadata.line,
                   exampleLine |-> example.metadata.line]]

\* currentSection = { name, metadata: { ... } }
TestsSectionObject(line, i, filepath) ==
    LET name == HeaderName(line, "=")
    IN  [name     |-> name,
         metadata |-> [filepath      |-> filepath,
                       header        |-> name,
                       line          |-> i + 1,
                       title         |-> name,
                       rawHeaderLine |-> line,
                       description   |-> <<>>]]

\* The locals of parse as the loop starts.
TestsFrame(content, filepath) ==
    [lines            |-> Split(content),
     i                |-> 0,
     currentSection   |-> Null,
     currentExample   |-> Null,
     parsingSource    |-> FALSE,
     parsingTree      |-> FALSE,
     startHeaderIndex |-> NaN,
     endHeaderIndex   |-> NaN,
     filepath         |-> filepath]

\* if (line.startsWith("===")) { ... continue; }
TestsOnSectionHeader(t, f, line) ==
    LET pushed == IF f.currentSection # Null /\ f.currentExample # Null
                  THEN Append(t.tests,
                              TestObject(f.currentSection, f.currentExample, f.filepath))
                  ELSE t.tests
        endIdx == IF f.startHeaderIndex # NaN /\ f.endHeaderIndex = NaN
                  THEN f.i ELSE f.endHeaderIndex
        startIdx == IF f.startHeaderIndex = NaN THEN f.i ELSE f.startHeaderIndex
    IN  [this  |-> [t EXCEPT !.tests = pushed],
         frame |-> [f EXCEPT !.startHeaderIndex = startIdx,
                             !.endHeaderIndex = endIdx,
                             !.currentSection = TestsSectionObject(line, f.i, f.filepath),
                             !.currentExample = Null],
         threw |-> FALSE]

\* The description of the Section: a non-blank line that is no Example header,
\* seen while a Section is open and no Example has started.
TestsCollectDescription(f, line) ==
    IF /\ f.currentSection # Null
       /\ f.currentExample = Null
       /\ Trim(line) # <<>>
       /\ ~StartsWith(line, Dash3)
    THEN [f EXCEPT !.currentSection.metadata.description = @ \o line \o LF]
    ELSE f

\* if (line.startsWith("---")) { ... continue; }
\* currentSection.name of a null currentSection throws a TypeError.
TestsOnExampleHeader(t, f, line) ==
    IF f.currentExample # Null /\ f.currentSection = Null
    THEN [this |-> t, frame |-> f, threw |-> TRUE]
    ELSE [this  |-> IF f.currentExample # Null
                    THEN [t EXCEPT !.tests =
                            Append(@, TestObject(f.currentSection, f.currentExample,
                                                 f.filepath))]
                    ELSE t,
          frame |-> [f EXCEPT !.currentExample = ExampleObject(line, f.i),
                              !.parsingSource = TRUE,
                              !.parsingTree = FALSE],
          threw |-> FALSE]

\* One iteration of the loop over the lines, i++ included.
TestsParseLine(t, f) ==
    LET line == f.lines[f.i + 1]
        r == IF StartsWith(line, Eq3) THEN TestsOnSectionHeader(t, f, line)
             ELSE LET g == TestsCollectDescription(f, line)
                  IN  IF StartsWith(line, Dash3) THEN TestsOnExampleHeader(t, g, line)
                      ELSE [this |-> t, frame |-> CollectContent(g, line), threw |-> FALSE]
    IN  IF r.threw THEN r ELSE [r EXCEPT !.frame.i = @ + 1]

\* The code after the loop: the name between the first two Section headers
\* replaces the name of the last Section (a TypeError when there is none),
\* and the Example still open is pushed.
TestsAfterLoop(t, f) ==
    LET nameLines == Slice(f.lines, PlusOne(f.startHeaderIndex), f.endHeaderIndex)
        name      == Trim(Join(nameLines))
    IN  IF f.currentSection = Null
        THEN [this |-> t, frame |-> f, threw |-> TRUE]
        ELSE LET section == [f.currentSection EXCEPT !.name = name]
             IN  [this  |-> IF f.currentExample # Null
                            THEN [t EXCEPT !.tests =
                                    Append(@, LastTestObject(section, f.currentExample,
                                                             f.filepath))]
                            ELSE t,
                  frame |-> [f EXCEPT !.currentSection = section],
                  threw |-> FALSE]


-----------------------------------------------------------------------------
(* CorpusParser.parse of scripts/corpus-parser.js: this.sections.           *)
(* currentSection is a reference to an element of this.sections (the one    *)
(* pushed last): the frame holds its position, and what the code writes     *)
(* through currentSection is written to that element.                       *)

\* let currentSection = null: no position of this.sections
NoSection == 0

\* currentSection = { name, examples: [], metadata: { ... } }
SectionObject(line, i, filepath) ==
    LET name == HeaderName(line, "=")
    IN  [name     |-> name,
         examples |-> <<>>,
         metadata |-> [filepath    |-> filepath,
                       header      |-> name,
                       line        |-> i + 1,
                       headerText  |-> line,
                       description |-> <<>>]]

\* currentExample = { name, source, tree, metadata: { line, inputCode, treeText, separator } }
SectionsExampleObject(line, i) ==
    [name     |-> HeaderName(line, "-"),
     source   |-> <<>>,
     tree     |-> <<>>,
     metadata |-> [line |-> i + 1, inputCode |-> <<>>, treeText |-> <<>>,
                   separator |-> line]]

SectionsFrame(content, filepath) ==
    [lines          |-> Split(content),
     i              |-> 0,
     currentSection |-> NoSection,
     currentExample |-> Null,
     parsingSource  |-> FALSE,
     parsingTree    |-> FALSE,
     filepath       |-> filepath]

\* The Example pushed onto the first Section, whichever is open.
PushExampleOntoFirst(t, f) ==
    [t EXCEPT !.sections[1].examples = Append(@, f.currentExample)]

\* currentSection.examples.push(currentExample)
PushExample(t, f) ==
    [t EXCEPT !.sections[f.currentSection].examples = Append(@, f.currentExample)]

\* if (line.startsWith('===')) { ... continue; }
SectionsOnSectionHeader(t, f, line) ==
    LET pushed == IF f.currentSection # NoSection /\ f.currentExample # Null
                  THEN PushExample(t, f) ELSE t
    IN  [this  |-> [pushed EXCEPT !.sections =
                        Append(@, SectionObject(line, f.i, f.filepath))],
         frame |-> [f EXCEPT !.currentSection = Len(t.sections) + 1,
                             !.currentExample = Null],
         threw |-> FALSE]

\* The description collected also after an Example has started.
SectionsCollectDescriptionAlways(t, f, line) ==
    IF /\ f.currentSection # NoSection
       /\ Trim(line) # <<>>
       /\ ~StartsWith(line, Dash3)
    THEN [t EXCEPT !.sections[f.currentSection].metadata.description = @ \o line \o LF]
    ELSE t

\* currentSection.metadata.description += line + '\n'
SectionsCollectDescription(t, f, line) ==
    IF /\ f.currentSection # NoSection
       /\ f.currentExample = Null
       /\ Trim(line) # <<>>
       /\ ~StartsWith(line, Dash3)
    THEN [t EXCEPT !.sections[f.currentSection].metadata.description = @ \o line \o LF]
    ELSE t

\* if (line.startsWith('---')) { ... continue; }
\* currentSection.examples of a null currentSection throws a TypeError.
SectionsOnExampleHeader(t, f, line) ==
    IF f.currentExample # Null /\ f.currentSection = NoSection
    THEN [this |-> t, frame |-> f, threw |-> TRUE]
    ELSE [this  |-> IF f.currentExample # Null THEN PushExample(t, f) ELSE t,
          frame |-> [f EXCEPT !.currentExample = SectionsExampleObject(line, f.i),
                              !.parsingSource = TRUE,
                              !.parsingTree = FALSE],
          threw |-> FALSE]

\* The content lines of an Example: as CollectContent, and the metadata copy
\* (inputCode, treeText) of the buffer written.
SectionsCollectContent(f, line) ==
    LET g == CollectContent(f, line)
    IN  IF g.currentExample = Null THEN g
        ELSE [g EXCEPT !.currentExample.metadata.inputCode =
                            @ \o SubSeq(g.currentExample.source,
                                        Len(f.currentExample.source) + 1,
                                        Len(g.currentExample.source)),
                       !.currentExample.metadata.treeText =
                            @ \o SubSeq(g.currentExample.tree,
                                        Len(f.currentExample.tree) + 1,
                                        Len(g.currentExample.tree))]

\* One iteration of the loop over the lines, i++ included.
SectionsParseLine(t, f) ==
    LET line == f.lines[f.i + 1]
        r == IF StartsWith(line, Eq3) THEN SectionsOnSectionHeader(t, f, line)
             ELSE LET u == SectionsCollectDescription(t, f, line)
                  IN  IF StartsWith(line, Dash3) THEN SectionsOnExampleHeader(u, f, line)
                      ELSE [this |-> u, frame |-> SectionsCollectContent(f, line),
                            threw |-> FALSE]
    IN  IF r.threw THEN r ELSE [r EXCEPT !.frame.i = @ + 1]

\* example.source = example.source.trim(), and so on
CleanExample(example) ==
    [example EXCEPT !.source = Trim(@),
                    !.tree = Trim(@),
                    !.metadata.inputCode = Trim(@),
                    !.metadata.treeText = Trim(@)]

\* section.metadata.description = ....trim(), and every example cleaned
CleanSection(section) ==
    [section EXCEPT !.metadata.description = Trim(@),
                    !.examples = [k \in 1..Len(@) |-> CleanExample(@[k])]]

\* The code after the loop without its push of the Example still open.
SectionsAfterLoopNoPush(t, f) ==
    [this  |-> [t EXCEPT !.sections = [k \in 1..Len(@) |-> CleanSection(@[k])]],
     frame |-> f,
     threw |-> FALSE]

\* The code after the loop: the Example still open is pushed, and every
\* Section of this.sections is cleaned up.
SectionsAfterLoop(t, f) ==
    LET pushed == IF f.currentSection # NoSection /\ f.currentExample # Null
                  THEN PushExample(t, f) ELSE t
    IN  [this  |-> [pushed EXCEPT !.sections =
                        [k \in 1..Len(@) |-> CleanSection(@[k])]],
         frame |-> f,
         threw |-> FALSE]

-----------------------------------------------------------------------------
(* Either class. *)

IsTests(t) == "tests" \in DOMAIN t

NewFrame(t, content, filepath) ==
    IF IsTests(t) THEN TestsFrame(content, filepath) ELSE SectionsFrame(content, filepath)
ParseLine(t, f) == IF IsTests(t) THEN TestsParseLine(t, f) ELSE SectionsParseLine(t, f)
AfterLoop(t, f) == IF IsTests(t) THEN TestsAfterLoop(t, f) ELSE SectionsAfterLoop(t, f)
\* return this.tests; / return this.sections;
Returned(t) == IF IsTests(t) THEN t.tests ELSE t.sections

\* parse run to its end on instance t: the instance afterwards, what the call
\* returned, and whether it threw.
RECURSIVE RunLoop(_, _)
RunLoop(t, f) ==
    IF f.i = Len(f.lines) THEN AfterLoop(t, f)
    ELSE LET r == ParseLine(t, f)
         IN  IF r.threw THEN r ELSE RunLoop(r.this, r.frame)

\* The test of `if (!content)` that never holds.
FalsyNever(content) == FALSE

\* !content for a string: the empty string is the one that is falsy.
Falsy(content) == content = <<>>

Parse(t, content, filepath) ==
    IF Falsy(content) THEN [this |-> t, value |-> <<>>, threw |-> FALSE]
    ELSE LET r == RunLoop(t, NewFrame(t, content, filepath))
         IN  [this |-> r.this, value |-> Returned(r.this), threw |-> r.threw]

\* new CorpusParser()
FreshTests == [tests |-> <<>>]
FreshSections == [sections |-> <<>>]

-----------------------------------------------------------------------------
(* normalizeTree and validateCorpus. *)

\* tree.replace(/\s+/g, " "): every maximal run of white space becomes one space.
RECURSIVE CollapseWhiteSpace(_)
CollapseWhiteSpace(s) ==
    IF s = <<>> THEN <<>>
    ELSE IF s[1] \in WhiteSpace
         THEN <<" ">> \o CollapseWhiteSpace(Tail2(s, LeadRun(s, WhiteSpace)))
         ELSE <<s[1]>> \o CollapseWhiteSpace(Tail(s))

\* tree.replace(/\s\s/g, " "): a slip of the pattern, every pair of white-space
\* characters becomes one space.
RECURSIVE CollapsePairs(_)
CollapsePairs(s) ==
    IF Len(s) < 2 THEN s
    ELSE IF s[1] \in WhiteSpace /\ s[2] \in WhiteSpace
         THEN <<" ">> \o CollapsePairs(Tail2(s, 2))
         ELSE <<s[1]>> \o CollapsePairs(Tail(s))

normalizeTreePairs(tree) == Trim(CollapsePairs(tree))

\* tree.replace(/\s+/g, " "): the result left untrimmed.
normalizeTreeNoTrim(tree) == CollapseWhiteSpace(tree)

\* tree.replace(/\s+/g, ""): every white-space character removed.
normalizeTreeStrip(tree) == SelectSeq(tree, LAMBDA c : c \notin WhiteSpace)

normalizeTree(tree) == Trim(CollapseWhiteSpace(tree))

\* { ...a, ...b }
Spread(a, b) ==
    [k \in DOMAIN a \cup DOMAIN b |-> IF k \in DOMAIN b THEN b[k] ELSE a[k]]

\* The (section, example) pairs in the order of the nested loops of
\* corpus-parser.js.
RECURSIVE SectionItems(_)
SectionItems(sections) ==
    IF sections = <<>> THEN <<>>
    ELSE [k \in 1..Len(sections[1].examples) |->
            [section |-> sections[1], example |-> sections[1].examples[k]]]
         \o SectionItems(Tail(sections))

\* What validateCorpus iterates over: the tests, or the examples of the sections.
Items(t) == IF IsTests(t) THEN t.tests ELSE SectionItems(t.sections)

\* The source handed to grammar.parse, and the expected tree, of an item.
ItemCode(t, item) == IF IsTests(t) THEN item.code ELSE item.example.source
ItemExpected(t, item) == IF IsTests(t) THEN item.parsed ELSE item.example.tree

\* results.passing.push({ ... })
PassingEntry(t, item) ==
    IF IsTests(t)
    THEN [name |-> Get(item, "name"), title |-> item.title, metadata |-> item.metadata]
    ELSE [section  |-> item.section.name,
          example  |-> item.example.name,
          metadata |-> Spread(item.section.metadata, item.example.metadata)]

\* results.failing.push({ ..., expected, actual, ... })
FailingEntry(t, item, treeString) ==
    IF IsTests(t)
    THEN [name     |-> Get(item, "name"),
          title    |-> item.title,
          expected |-> item.parsed,
          actual   |-> treeString,
          metadata |-> item.metadata]
    ELSE [section  |-> item.section.name,
          example  |-> item.example.name,
          expected |-> item.example.tree,
          actual   |-> treeString,
          metadata |-> Spread(item.section.metadata, item.example.metadata)]

\* if (treeString === test.parsed): the comparison without normalizeTree.
MatchesRaw(t, item, treeString) ==
    treeString = (IF IsTests(t) THEN item.parsed ELSE item.example.tree)

\* if (this.normalizeTree(treeString) === this.normalizeTree(test.parsed))
Matches(t, item, treeString) ==
    normalizeTree(treeString) = normalizeTree(ItemExpected(t, item))

\* The locals of validateCorpus as its loop starts.  `from` is auxiliary: the
\* position in the input of each entry of results.
ValidateFrame ==
    [k       |-> 0,
     results |-> [passing |-> <<>>, failing |-> <<>>],
     from    |-> [passing |-> <<>>, failing |-> <<>>]]

\* The iteration with the failing branch pushing nothing.
ValidateOneDropsFail(t, v, item, treeString) ==
    IF normalizeTree(treeString)
         = normalizeTree(IF IsTests(t) THEN item.parsed ELSE item.example.tree)
    THEN [v EXCEPT !.k = @ + 1,
                   !.results.passing = Append(@, PassingEntry(t, item)),
                   !.from.passing = Append(@, v.k + 1)]
    ELSE [v EXCEPT !.k = @ + 1]

\* The iteration with unshift in place of push.
ValidateOneUnshift(t, v, item, treeString) ==
    IF normalizeTree(treeString)
         = normalizeTree(IF IsTests(t) THEN item.parsed ELSE item.example.tree)
    THEN [v EXCEPT !.k = @ + 1,
                   !.results.passing = <<PassingEntry(t, item)>> \o @,
                   !.from.passing = <<v.k + 1>> \o @]
    ELSE [v EXCEPT !.k = @ + 1,
                   !.results.failing = <<FailingEntry(t, item, treeString)>> \o @,
                   !.from.failing = <<v.k + 1>> \o @]

\* One iteration of the loop of validateCorpus, given what the engine rendered.
ValidateOne(t, v, item, treeString) ==
    IF Matches(t, item, treeString)
    THEN [v EXCEPT !.k = @ + 1,
                   !.results.passing = Append(@, PassingEntry(t, item)),
                   !.from.passing = Append(@, v.k + 1)]
    ELSE [v EXCEPT !.k = @ + 1,
                   !.results.failing = Append(@, FailingEntry(t, item, treeString)),
                   !.from.failing = Append(@, v.k + 1)]

-----------------------------------------------------------------------------
(* The inputs: corpus texts, file paths, and what the grammar engine does. *)

Simple == <<"s", "i", "m", "p", "l", "e">>
SourceLine == <<"a", ";">>
TreeLine == <<"(", "a", ")">>
SectionLine == <<"=", "=", "=", "S", "=", "=", "=">>
ExampleLine == <<"-", "-", "-", "e", "-", "-", "-">>
NameLine == <<"N">>
Blank == <<>>
\* Lines that are no headers: two markers only, and a space before the markers.
TwoEq == <<"=", "=", "S">>
TwoDash == <<"-", "-", "e">>
SpaceEq == <<" ", "=", "=", "=", "S">>
SpaceDash == <<" ", "-", "-", "-", "e">>

\* The lines the enumerated texts are made of.
Vocabulary ==
    {Eq3, SectionLine, Dash3, ExampleLine, Blank, SourceLine, TreeLine, NameLine,
     TwoDash, SpaceEq}

\* Every text of 1..n lines of the vocabulary (the empty text is the one blank line).
TextsUpTo(n) == {Join(ls) : ls \in UNION {[1..k -> Vocabulary] : k \in 1..n}}

\* The layout the README documents, without and with its blank lines.
ReadmeLayout == Join(<<Eq3, Simple, Eq3, SourceLine, Dash3, TreeLine>>)
ScenarioA ==
    Join(<<Eq3, Simple, Eq3, Blank, SourceLine, Blank, Dash3, Blank, TreeLine>>)
\* One-line headers: an Example closed by the end of input, and by a header.
ClosedByEnd == Join(<<SectionLine, ExampleLine, SourceLine, TreeLine>>)
ClosedByHeader == Join(<<SectionLine, ExampleLine, SourceLine, TreeLine, Eq3>>)

\* Two Examples in one Section, headers ---first--- and ---second---.
First == <<"-", "-", "-", "f", "i", "r", "s", "t", "-", "-", "-">>
Second == <<"-", "-", "-", "s", "e", "c", "o", "n", "d", "-", "-", "-">>
TwoExamples ==
    Join(<<SectionLine, First, SourceLine, TreeLine, Second, SourceLine, TreeLine>>)

\* An indented source line and a tree of two lines, the second one indented.
IndentedSource == <<" ", " ", "a", ";">>
TreeOpen == <<"(", "a">>
TreeClose == <<" ", " ", "b", ")">>
Indented == Join(<<SectionLine, ExampleLine, IndentedSource, TreeOpen, TreeClose>>)

\* The layout the README documents, twice: two Sections, simple and two.
SecondName == <<"t", "w", "o">>
SecondSource == <<"b", ";">>
SecondTree == <<"(", "b", ")">>
ReadmeTwoSections ==
    Join(<<Eq3, Simple, Eq3, Blank, SourceLine, Blank, Dash3, Blank, TreeLine, Blank,
           Eq3, SecondName, Eq3, Blank, SecondSource, Blank, Dash3, Blank, SecondTree>>)

\* Lines that look like headers and are none, in a Section and in an Example.
NearHeaders ==
    Join(<<SectionLine, TwoEq, SpaceDash, ExampleLine, SourceLine, TwoDash, SpaceEq,
           TreeLine>>)

\* Two Examples of different content, with blank lines around the content.
TwoDistinct ==
    Join(<<SectionLine, First, SourceLine, Blank, TreeLine, Blank,
           Second, Blank, SecondSource, SecondTree>>)

\* An Example without source whose tree spans a blank line.
TreeHead == <<"(", "a">>
TreeTail == <<"b", ")">>
BlankInTree == Join(<<SectionLine, ExampleLine, TreeHead, Blank, TreeTail>>)

\* Headers that end in fewer than three marker characters or in a space.
ShortRunSection == <<"=", "=", "=", "S", "=">>
SpaceEndExample == <<"-", "-", "-", "e", " ">>
ShortRuns == Join(<<ShortRunSection, SpaceEndExample, SourceLine, TreeLine>>)

Scenarios ==
    {ReadmeLayout, ScenarioA, ClosedByEnd, ClosedByHeader, TwoExamples, Indented,
     ReadmeTwoSections, NearHeaders, TwoDistinct, BlankInTree, ShortRuns}

InputsAlone == TextsUpTo(MaxLines) \cup Scenarios
\* The scenarios two callers of one instance are given.
ScenariosShared == {ReadmeLayout, ScenarioA, ClosedByEnd, ClosedByHeader, TwoExamples}
InputsShared == TextsUpTo(MaxLinesShared) \cup ScenariosShared

Callers == {"A", "B"}
\* The corpus file each caller names.
FileOf(t) == IF t = "A" THEN "a.txt" ELSE "b.txt"

\* tree.rootNode.toString() of the engine: the tree, the tree with spaces
\* inside the parentheses, and the tree in other white space.
Renderings ==
    {<<"(", "a", ")">>,
     <<"(", " ", "a", " ", ")">>,
     <<" ", "(", "a", ")", "\n">>}
\* grammar.parse(code) or toString() throws.
EngineThrows == [threw |-> TRUE]
EngineOutcomes == {[threw |-> FALSE, rendered |-> r] : r \in Renderings} \cup {EngineThrows}

-----------------------------------------------------------------------------
(* The state machine. *)

Inputs == IF Cardinality(active) > 1 THEN InputsShared ELSE InputsAlone

\* JavaScript runs a synchronous stretch to its end: no other caller is
\* inside parse or inside the loop of validateCorpus.
NoOtherRuns(t) == \A u \in Callers \ {t} : pc[u] \notin {"loop", "validate"}

\* The list validateCorpus iterates: what parse returned to it.
ValidateList(t) == IF val[t].alias THEN Items(this) ELSE <<>>

InitCommon ==
    /\ this \in {FreshTests, FreshSections}
    /\ frame = Null
    /\ pc = [t \in Callers |-> "idle"]
    /\ call = [t \in Callers |-> Null]
    /\ ret = [t \in Callers |-> Null]
    /\ val = [t \in Callers |-> Null]
    /\ engineLog = <<>>
    /\ normOut = <<>>
    /\ normVariant = Null

Init == InitCommon /\ active = {"A"} /\ normArg = <<>> /\ cli = Null
InitShared == InitCommon /\ active = Callers /\ normArg = <<>> /\ cli = Null

\* parse(content, filepath) is entered by caller t: `if (!content) return []`,
\* or the locals are set up and the loop starts.
EnterParse(t, op, content, filepath) ==
    /\ call' = [call EXCEPT ![t] = [op |-> op, filepath |-> filepath, content |-> content]]
    /\ IF Falsy(content)
       THEN /\ frame' = Null
            /\ IF op # "validateCorpus"
               THEN /\ pc' = [pc EXCEPT ![t] = "done"]
                    /\ ret' = [ret EXCEPT ![t] =
                                [kind |-> "return", alias |-> FALSE, value |-> <<>>]]
                    /\ val' = val
               ELSE /\ pc' = [pc EXCEPT ![t] = "validate"]
                    /\ val' = [val EXCEPT ![t] = Spread(ValidateFrame, [alias |-> FALSE])]
                    /\ ret' = ret
       ELSE /\ frame' = Spread(NewFrame(this, content, filepath), [caller |-> t])
            /\ pc' = [pc EXCEPT ![t] = "loop"]
            /\ UNCHANGED <<ret, val>>
    /\ UNCHANGED <<this, engineLog, active, normArg, normOut, normVariant, cli>>

\* parser.parse(content)
CallParse(t) ==
    /\ t \in active
    /\ pc[t] = "idle"
    /\ NoOtherRuns(t)
    /\ \E content \in Inputs : EnterParse(t, "parse", content, NullPath)

\* parser.validateCorpus(grammar, filepath) up to `await fs.readFile(...)`
CallValidateCorpus(t) ==
    /\ t \in active
    /\ pc[t] = "idle"
    /\ NoOtherRuns(t)
    /\ pc' = [pc EXCEPT ![t] = "read"]
    /\ call' = [call EXCEPT ![t] = [op |-> "validateCorpus", filepath |-> FileOf(t)]]
    /\ UNCHANGED <<this, frame, ret, val, engineLog, active, normArg, normOut, normVariant, cli>>

\* readFile resolves with the content of the file, and parseFile calls parse.
ReadFile(t) ==
    /\ pc[t] = "read"
    /\ NoOtherRuns(t)
    /\ \E content \in Inputs : EnterParse(t, call[t].op, content, call[t].filepath)

\* One iteration of the loop of parse.
ParseStep(t) ==
    /\ pc[t] = "loop"
    /\ frame.i < Len(frame.lines)
    /\ LET r == ParseLine(this, frame)
       IN  IF r.threw
           THEN /\ pc' = [pc EXCEPT ![t] = "threw"]
                /\ ret' = [ret EXCEPT ![t] = [kind |-> "throw", error |-> "TypeError"]]
                /\ UNCHANGED <<this, frame>>
           ELSE /\ this' = r.this
                /\ frame' = r.frame
                /\ UNCHANGED <<pc, ret>>
    /\ UNCHANGED <<call, val, engineLog, active, normArg, normOut, normVariant, cli>>

\* The code of parse after its loop, and its return; validateCorpus goes on
\* with the list returned.
ParseReturn(t) ==
    /\ pc[t] = "loop"
    /\ frame.i = Len(frame.lines)
    /\ LET r == AfterLoop(this, frame)
       IN  IF r.threw
           THEN /\ pc' = [pc EXCEPT ![t] = "threw"]
                /\ ret' = [ret EXCEPT ![t] = [kind |-> "throw", error |-> "TypeError"]]
                /\ UNCHANGED <<this, frame, val>>
           ELSE /\ this' = r.this
                /\ frame' = r.frame
                /\ IF call[t].op # "validateCorpus"
                   THEN /\ pc' = [pc EXCEPT ![t] = "done"]
                        /\ ret' = [ret EXCEPT ![t] =
                                    [kind |-> "return", alias |-> TRUE,
                                     value |-> Returned(r.this)]]
                        /\ val' = val
                   ELSE /\ pc' = [pc EXCEPT ![t] = "validate"]
                        /\ val' = [val EXCEPT ![t] =
                                    Spread(ValidateFrame, [alias |-> TRUE])]
                        /\ ret' = ret
    /\ UNCHANGED <<call, engineLog, active, normArg, normOut, normVariant, cli>>

\* One iteration of the loop of validateCorpus: the engine parses and renders
\* the code of the next item, or throws, which ends validateCorpus.
ValidateStep(t) ==
    /\ pc[t] = "validate"
    /\ val[t].k < Len(ValidateList(t))
    /\ LET item == ValidateList(t)[val[t].k + 1]
       IN  \E o \in EngineOutcomes :
             /\ engineLog' = Append(engineLog,
                                    [caller |-> t, k |-> val[t].k + 1,
                                     code |-> ItemCode(this, item), outcome |-> o])
             /\ IF o = EngineThrows
                THEN /\ pc' = [pc EXCEPT ![t] = "threw"]
                     /\ ret' = [ret EXCEPT ![t] = [kind |-> "throw", error |-> "EngineError"]]
                     /\ val' = val
                ELSE /\ val' = [val EXCEPT ![t] = ValidateOne(this, @, item, o.rendered)]
                     /\ UNCHANGED <<pc, ret>>
    /\ UNCHANGED <<this, frame, call, active, normArg, normOut, normVariant, cli>>

\* return results;
ValidateReturn(t) ==
    /\ pc[t] = "validate"
    /\ val[t].k = Len(ValidateList(t))
    /\ pc' = [pc EXCEPT ![t] = "done"]
    /\ ret' = [ret EXCEPT ![t] =
                [kind |-> "return", alias |-> FALSE, value |-> val[t].results]]
    /\ UNCHANGED <<this, frame, call, val, engineLog, active, normArg, normOut, normVariant, cli>>

Next ==
    \E t \in Callers :
        \/ CallParse(t)
        \/ CallValidateCorpus(t)
        \/ ReadFile(t)
        \/ ParseStep(t)
        \/ ParseReturn(t)
        \/ ValidateStep(t)
        \/ ValidateReturn(t)

Spec == Init /\ [][Next]_vars
SpecShared == InitShared /\ [][Next]_vars


-----------------------------------------------------------------------------
(* normalizeTree on its own, applied to every short string, to its own     *)
(* result, and then to the same string in other white space.                *)

NormAlphabet == {"a", "(", " ", "\n"}
NormStrings == UNION {[1..k -> NormAlphabet] : k \in 0..MaxStrLen}

NormVariants == UNION {[1..k -> NormAlphabet] : k \in 0..MaxVariantLen}

InitNorm == InitCommon /\ active = {} /\ normArg \in NormStrings /\ cli = Null

Normalize ==
    /\ Len(normOut) < 2
    /\ normOut' = Append(normOut,
                         normalizeTree(IF normOut = <<>> THEN normArg ELSE Last(normOut)))
    /\ UNCHANGED <<this, frame, pc, call, ret, val, engineLog, active, normArg,
                   normVariant, cli>>

\* The maximal runs of characters other than white space, in order.
RECURSIVE Words(_)
Words(s) ==
    IF s = <<>> THEN <<>>
    ELSE IF s[1] \in WhiteSpace
         THEN Words(Tail2(s, LeadRun(s, WhiteSpace)))
         ELSE LET n == LeadRun(s, NormAlphabet \ WhiteSpace)
              IN  <<SubSeq(s, 1, n)>> \o Words(Tail2(s, n))

\* normalizeTree applied to a string that differs from normArg in white space
\* only: same words, other runs of white space between and around them.
NormalizeVariant ==
    /\ Len(normOut) = 2
    /\ normVariant = Null
    /\ \E v \in NormVariants :
          /\ Words(v) = Words(normArg)
          /\ normVariant' = [arg |-> v, out |-> normalizeTree(v)]
    /\ UNCHANGED <<this, frame, pc, call, ret, val, engineLog, active, normArg,
                   normOut, cli>>

NextNorm == Normalize \/ NormalizeVariant

SpecNorm == InitNorm /\ [][NextNorm]_vars

-----------------------------------------------------------------------------
(* The validate command: handleValidate of scripts/corpus-test.js, which    *)
(* uses the record-emitting parser, and the validate case of main of the    *)
(* older command line, which uses the section-building parser.  The corpus  *)
(* file named on the command line exists.                                   *)

\* What loading the grammar named on the command line comes to:
\* "module": require(grammarPath) returns the grammar;
\* "language": require throws, the file exists and the tree-sitter bindings
\*     load it as a language;
\* "missing": require throws and the file does not exist;
\* "unloadable": require throws, the file exists and the bindings throw too.
GrammarLoads == {"module", "language", "missing", "unloadable"}

\* The command that goes on to validateCorpus whatever loading came to.
AfterLoadGoesOn(t, load) == [stage |-> "loaded", load |-> load, exit |-> 0]

\* The command after the grammar is loaded, or not: handleValidate falls back
\* on the bindings when require throws, and any error thrown ends in the
\* catch with process.exit(1); the older main exits with 1 when the file does
\* not exist or require throws.
AfterLoad(t, load) ==
    IF load = "module" \/ (IsTests(t) /\ load = "language")
    THEN [stage |-> "loaded", load |-> load, exit |-> 0]
    ELSE [stage |-> "exited", load |-> load, exit |-> 1]

InitCli ==
    /\ InitCommon /\ active = {"A"} /\ normArg = <<>>
    /\ cli = [stage |-> "start", load |-> "none", exit |-> 0]

\* The grammar is loaded, or the command exits.
CliLoadGrammar ==
    /\ cli.stage = "start"
    /\ \E load \in GrammarLoads : cli' = AfterLoad(this, load)
    /\ UNCHANGED <<this, frame, pc, call, ret, val, engineLog, active, normArg,
                   normOut, normVariant>>

\* await parser.validateCorpus(grammar, corpusPath)
CliValidate ==
    /\ cli.stage = "loaded"
    /\ CallValidateCorpus("A")

\* validateCorpus has returned or thrown: the results are printed, and the
\* command exits with 1 when a test failed or an error was caught.
CliExit ==
    /\ cli.stage = "loaded"
    /\ pc["A"] \in {"done", "threw"}
    /\ cli' = [cli EXCEPT !.stage = "exited",
                          !.exit = IF pc["A"] = "threw" THEN 1
                                   ELSE IF ret["A"].value.failing # <<>> THEN 1
                                   ELSE 0]
    /\ UNCHANGED <<this, frame, pc, call, ret, val, engineLog, active, normArg,
                   normOut, normVariant>>

NextCli ==
    \/ CliLoadGrammar
    \/ CliValidate
    \/ ReadFile("A")
    \/ ParseStep("A")
    \/ ParseReturn("A")
    \/ ValidateStep("A")
    \/ ValidateReturn("A")
    \/ CliExit

SpecCli == InitCli /\ [][NextCli]_vars

------------------------------------------------------------------------------
(* The extract command of scripts/corpus-test.js: one parser for the files
   of a directory. *)

\* content.includes(sub)
Includes(s, sub) ==
    \E k \in 0..(Len(s) - Len(sub)) : SubSeq(s, k + 1, k + Len(sub)) = sub

\* A corpus file with two Example headers before its first Section header.
OrphanPair == Join(<<ExampleLine, ExampleLine, SectionLine, ExampleLine, TreeLine>>)

\* The texts findCorpusFiles takes for corpus files.
CorpusFileTexts ==
    {c \in InputsShared \cup {OrphanPair} : Includes(c, Eq3) /\ Includes(c, Dash3)}

\* The paths findCorpusFiles returns, in its order.
CorpusFileNames == <<"a.txt", "b.txt", "c.txt">>

InitExtract ==
    /\ InitCommon /\ this = FreshTests /\ active = {"A"} /\ normArg = <<>>
    /\ \E n \in 1..MaxFiles :
          cli = [stage |-> "extract", count |-> n, files |-> <<>>,
                 allTests |-> <<>>, exit |-> 0]

\* const tests = await parser.parseFile(file), up to the await of readFile
ExtractParseFile ==
    /\ cli.stage = "extract"
    /\ pc["A"] = "idle"
    /\ Len(cli.files) < cli.count
    /\ pc' = [pc EXCEPT !["A"] = "read"]
    /\ call' = [call EXCEPT !["A"] =
                  [op |-> "parseFile",
                   filepath |-> CorpusFileNames[Len(cli.files) + 1]]]
    /\ UNCHANGED <<this, frame, ret, val, engineLog, active, normArg, normOut,
                   normVariant, cli>>

\* readFile resolves with the content of the corpus file, and parse starts.
ExtractReadFile ==
    /\ cli.stage = "extract"
    /\ pc["A"] = "read"
    /\ \E content \in CorpusFileTexts :
          EnterParse("A", "parseFile", content, call["A"].filepath)

\* allTests.push(...tests), with the file read noted
ExtractPush ==
    /\ cli.stage = "extract"
    /\ pc["A"] = "done"
    /\ cli' = [cli EXCEPT !.files = Append(@, call["A"].content),
                          !.allTests = @ \o (IF ret["A"].alias THEN Returned(this)
                                             ELSE ret["A"].value)]
    /\ pc' = [pc EXCEPT !["A"] = "idle"]
    /\ UNCHANGED <<this, frame, call, ret, val, engineLog, active, normArg, normOut,
                   normVariant>>

\* The loop is over and the list is printed, or an error was caught and the
\* command exits with 1.
ExtractExit ==
    /\ cli.stage = "extract"
    /\ \/ pc["A"] = "idle" /\ Len(cli.files) = cli.count
             /\ cli' = [cli EXCEPT !.stage = "extracted"]
       \/ pc["A"] = "threw"
             /\ cli' = [cli EXCEPT !.stage = "exited", !.exit = 1]
    /\ UNCHANGED <<this, frame, pc, call, ret, val, engineLog, active, normArg,
                   normOut, normVariant>>

NextExtract ==
    \/ ExtractParseFile
    \/ ExtractReadFile
    \/ ParseStep("A")
    \/ ParseReturn("A")
    \/ ExtractPush
    \/ ExtractExit

SpecExtract == InitExtract /\ [][NextExtract]_vars

------------------------------------------------------------------------------
(* One caller on a fresh parser, with the run loop of JavaScript: what has
   started runs on. *)

InputsLive == InputsShared \cup {OrphanPair}

\* parser.parse(content)
LiveCallParse ==
    /\ pc["A"] = "idle"
    /\ \E content \in InputsLive : EnterParse("A", "parse", content, NullPath)

\* readFile resolves with the content of the file, and parseFile calls parse.
LiveReadFile ==
    /\ pc["A"] = "read"
    /\ \E content \in InputsLive :
          EnterParse("A", call["A"].op, content, call["A"].filepath)

\* A synchronous stretch runs to its end, and the promise of readFile settles.
Runs ==
    \/ LiveReadFile
    \/ ParseStep("A")
    \/ ParseReturn("A")
    \/ ValidateStep("A")
    \/ ValidateReturn("A")

NextLive ==
    \/ LiveCallParse
    \/ CallValidateCorpus("A")
    \/ Runs

SpecLive == Init /\ [][NextLive]_vars /\ WF_vars(Runs)

-----------------------------------------------------------------------------
(* What the claims speak of. *)

\* new CorpusParser() of the class of instance t
Fresh(t) == IF IsTests(t) THEN FreshTests ELSE FreshSections

\* The text has no line starting with === and none starting with ---.
NoHeaderLine(content) ==
    \A k \in 1..Len(Split(content)) :
        ~StartsWith(Split(content)[k], Eq3) /\ ~StartsWith(Split(content)[k], Dash3)

\* Caller t called parse directly and the call has ended.
ParseEnded(t) ==
    /\ pc[t] \in {"done", "threw"}
    /\ call[t].op = "parse"

\* C1: from a fresh record-emitting parser, parse of a text without === and
\* --- lines returns normally, with no record.
C1_NoHeaderNoRecords ==
    \A t \in Callers :
        (IsTests(this) /\ ParseEnded(t) /\ NoHeaderLine(call[t].content))
            => (ret[t].kind = "return" /\ ret[t].value = <<>>)

\* Caller t's parse has returned with an Example still open at the end of
\* the input, and the locals of that call are still there.
EndedWithOpenExample(t) ==
    /\ IsTests(this)
    /\ ParseEnded(t) /\ pc[t] = "done"
    /\ frame # Null /\ frame.caller = t
    /\ frame.currentExample # Null

\* C2: the record pushed at the end of the input is the one a Section header
\* would have pushed: code is the trimmed source, parsed the trimmed tree,
\* with the same fields and metadata fields.
C2_LastEmittedLikeAtHeader ==
    \A t \in Callers :
        EndedWithOpenExample(t) =>
            LET last     == Last(this.tests)
                atHeader == TestObject(frame.currentSection, frame.currentExample,
                                       frame.filepath)
            IN  /\ last.code = Trim(frame.currentExample.source)
                /\ last.parsed = Trim(frame.currentExample.tree)
                /\ DOMAIN last = DOMAIN atHeader
                /\ DOMAIN last.metadata = DOMAIN atHeader.metadata

\* C3: the README layout (===, simple, ===, a;, ---, (a)) parsed by a fresh
\* parser gives one Section named simple with one Example of source a; and
\* tree (a): as one record of the record-emitting parser, and as one Section
\* with one Example of the section-building parser.
C3_ReadmeLayoutParsed ==
    \A t \in Callers :
        (ParseEnded(t) /\ call[t].content = ReadmeLayout) =>
            /\ pc[t] = "done"
            /\ IF IsTests(this)
               THEN /\ Len(this.tests) = 1
                    /\ this.tests[1].title = Simple
                    /\ this.tests[1].code = SourceLine
                    /\ this.tests[1].parsed = TreeLine
               ELSE /\ Len(this.sections) = 1
                    /\ this.sections[1].name = Simple
                    /\ Len(this.sections[1].examples) = 1
                    /\ this.sections[1].examples[1].source = SourceLine
                    /\ this.sections[1].examples[1].tree = TreeLine

\* C4: what a parse call returns is what a fresh parser returns for the
\* document of that call: no record of a document parsed earlier is in it.
C4_NoLeakBetweenParses ==
    \A t \in Callers :
        (IsTests(this) /\ ParseEnded(t) /\ pc[t] = "done") =>
            ret[t].value = Parse(Fresh(this), call[t].content, call[t].filepath).value

\* Caller t is in, or past, the loop of validateCorpus.
Validating(t) == val[t] # Null

\* The grammar.parse calls of caller t, in the order made.
EngineCalls(t) == SelectSeq(engineLog, LAMBDA e : e.caller = t)

\* What the engine rendered for the j-th item of caller t.
Rendered(t, j) == EngineCalls(t)[j].outcome.rendered

\* The positions listed in a sequence of positions.
Range(f) == {f[n] : n \in 1..Len(f)}

\* Caller t's validateCorpus has returned its results.
ValidateDone(t) == pc[t] = "done" /\ call[t].op = "validateCorpus"

\* C5: an item is in the passing list exactly when the normalized rendering
\* equals the normalized expected tree, in the failing list otherwise, and in
\* exactly one of the two, once.
C5_PassIffNormalizedEqual ==
    \A t \in Callers :
        Validating(t) =>
            LET v == val[t]
            IN  /\ Len(v.results.passing) = Len(v.from.passing)
                /\ Len(v.results.failing) = Len(v.from.failing)
                /\ Len(v.from.passing) + Len(v.from.failing) = v.k
                /\ Range(v.from.passing) \cup Range(v.from.failing) = 1..v.k
                /\ ValidateDone(t) => v.k = Len(ValidateList(t))
                /\ \A j \in 1..v.k :
                      (j \in Range(v.from.passing))
                        <=> (normalizeTree(Rendered(t, j))
                               = normalizeTree(ItemExpected(this, ValidateList(t)[j])))

\* C5 witness: a run that has returned with an item passing although its
\* rendering differs from the expected tree as written.
C5_Witness ==
    \E t \in Callers :
        /\ ValidateDone(t)
        /\ \E j \in Range(val[t].from.passing) :
              Rendered(t, j) # ItemExpected(this, ValidateList(t)[j])
        /\ val[t].from.failing # <<>>

\* C6: an engine failure for an item is a Fail entry of that item, the call
\* does not throw, and the items after it are still evaluated.
C6_EngineFailureIsAFail ==
    \A n \in 1..Len(engineLog) :
        engineLog[n].outcome = EngineThrows =>
            LET t == engineLog[n].caller
            IN  /\ pc[t] # "threw"
                /\ engineLog[n].k \in Range(val[t].from.failing)

\* C7: a mismatch does not end the run: validateCorpus ends its loop early
\* only when the engine throws, a call that has recorded a Fail goes on, and
\* a run that has returned has an entry for every item.
C7_MismatchDoesNotAbort ==
    \A t \in Callers :
        Validating(t) =>
            /\ (pc[t] = "threw") => (Last(EngineCalls(t)).outcome = EngineThrows)
            /\ (pc[t] = "validate" /\ val[t].k < Len(ValidateList(t)))
                  => ENABLED ValidateStep(t)
            /\ ValidateDone(t) =>
                  /\ Len(val[t].results.passing) + Len(val[t].results.failing)
                        = Len(ValidateList(t))
                  /\ ret[t].value = val[t].results

\* C7 witness: a run that returned after a mismatch on an item that is not
\* the last one.
C7_Witness ==
    \E t \in Callers :
        /\ ValidateDone(t)
        /\ \E j \in Range(val[t].from.failing) : j < Len(ValidateList(t))
        /\ val[t].from.passing # <<>>

Increasing(f) == \A m, n \in 1..Len(f) : m < n => f[m] < f[n]

\* C8: the engine is called for the items one after the other in input
\* order, and each of the two lists holds its entries in input order.
C8_InInputOrder ==
    \A t \in Callers :
        Validating(t) =>
            LET v     == val[t]
                calls == EngineCalls(t)
                list  == ValidateList(t)
            IN  /\ Len(calls) = IF pc[t] = "threw" THEN v.k + 1 ELSE v.k
                /\ \A n \in 1..Len(calls) :
                      calls[n].k = n /\ calls[n].code = ItemCode(this, list[n])
                /\ Increasing(v.from.passing)
                /\ Increasing(v.from.failing)
                /\ \A n \in 1..Len(v.results.passing) :
                      v.results.passing[n] = PassingEntry(this, list[v.from.passing[n]])
                /\ \A n \in 1..Len(v.results.failing) :
                      v.results.failing[n]
                        = FailingEntry(this, list[v.from.failing[n]],
                                       Rendered(t, v.from.failing[n]))

\* C8 witness: a run that returned two entries in one list.
C8_Witness ==
    \E t \in Callers :
        /\ ValidateDone(t)
        /\ Len(val[t].results.failing) >= 2 \/ Len(val[t].results.passing) >= 2

\* C9: every failing entry of the record-emitting parser carries expected,
\* actual, and a location of file, section line and example line.
C9_FailingEntryCarriesLocation ==
    \A t \in Callers :
        (IsTests(this) /\ Validating(t)) =>
            \A n \in 1..Len(val[t].results.failing) :
                LET e == val[t].results.failing[n]
                IN  /\ {"expected", "actual", "metadata"} \subseteq DOMAIN e
                    /\ e.expected = ItemExpected(this, ValidateList(t)[val[t].from.failing[n]])
                    /\ e.actual = Rendered(t, val[t].from.failing[n])
                    /\ {"filepath", "sectionLine", "exampleLine"} \subseteq DOMAIN e.metadata

\* C10: normalizeTree applied to its own result returns that result.
C10_NormalizeIdempotent ==
    Len(normOut) = 2 => normOut[2] = normOut[1]

\* C10 witness: normalizeTree applied twice to a string it changes.
C10_Witness ==
    Len(normOut) = 2 /\ normOut[1] # normArg /\ normOut[1] # <<>>

\* C11: normalizeTree gives one result for two strings that differ in white
\* space only, and the result has no white space at either end and no two
\* white-space characters next to each other.
C11_WhiteSpaceInsensitive ==
    (normVariant # Null /\ normOut # <<>>) =>
        LET out == normOut[1]
        IN  /\ normVariant.out = out
            /\ out # <<>> => (out[1] \notin WhiteSpace /\ Last(out) \notin WhiteSpace)
            /\ \A n \in 1..(Len(out) - 1) :
                  ~(out[n] \in WhiteSpace /\ out[n + 1] \in WhiteSpace)

\* C11 witness: two different strings of two words, one with white space at
\* its ends and a longer run between the words, normalized to one result.
C11_Witness ==
    /\ normVariant # Null /\ normOut # <<>>
    /\ normVariant.arg # normArg
    /\ Len(Words(normArg)) = 2
    /\ normArg[1] \in WhiteSpace
    /\ normVariant.arg[1] \notin WhiteSpace
    /\ Len(normVariant.arg) > Len(normVariant.out)

\* The lines of the current Example read so far include one whose trimmed
\* text starts with "(".
SeenParen(f) ==
    /\ f.currentExample # Null
    /\ \E k \in (f.currentExample.metadata.line + 1)..f.i :
          StartsWith(Trim(f.lines[k]), <<"(">>)

\* A step of the loop of parse, of one call.
LoopStep ==
    /\ frame # Null /\ frame' # Null
    /\ frame'.caller = frame.caller
    /\ frame'.i = frame.i + 1

\* A step of the loop that stays in the Example it started in.
SameExample ==
    /\ LoopStep
    /\ frame.currentExample # Null /\ frame'.currentExample # Null
    /\ frame'.currentExample.metadata.line = frame.currentExample.metadata.line

\* C12: once a line whose trimmed text starts with "(" has been read in an
\* Example, no later line of that Example is appended to its source, and the
\* mode is source again only when a --- line starts the next Example.
C12_SwitchIsMonotonic ==
    [][ /\ (SameExample /\ SeenParen(frame)) =>
              /\ frame'.currentExample.source = frame.currentExample.source
              /\ ~frame'.parsingSource
        /\ (LoopStep /\ ~frame.parsingSource /\ frame'.parsingSource) =>
              /\ StartsWith(frame.lines[frame.i + 1], Dash3)
              /\ frame'.currentExample.metadata.line = frame.i + 1
      ]_vars

\* C12 witness: an Example with source, then a "(" line, then a line that
\* does not start with "(", which went to the tree.
C12_Witness ==
    /\ frame # Null
    /\ SeenParen(frame)
    /\ frame.currentExample.source # <<>>
    /\ ~StartsWith(Trim(frame.lines[frame.i]), <<"(">>)
    /\ frame.currentExample.metadata.line < frame.i
    /\ frame.currentExample.tree
          = Join(SubSeq(frame.lines, frame.i - 1, frame.i)) \o LF

\* Caller t's parse of the section-building parser has returned.
SectionsReturned(t) == ~IsTests(this) /\ ParseEnded(t) /\ pc[t] = "done"

\* The numbers of the lines of a text that start with the marker m.
LinesStarting(content, m) ==
    LET lines == Split(content)
    IN  {k \in 1..Len(lines) : StartsWith(lines[k], m)}

\* The number of the line after the Section s of the list secs read from a
\* text: the line of the next Section header, or the one past the last line.
SectionEnd(secs, s, content) ==
    IF s < Len(secs) THEN secs[s + 1].metadata.line ELSE Len(Split(content)) + 1

\* C13: the Sections returned by the section-building parser, started fresh,
\* are those of the === lines in order, and each has as many Examples as there
\* are --- lines between its header and the next === line or the end.
C13_ExamplesPerSection ==
    \A t \in Callers :
        SectionsReturned(t) =>
            LET secs == this.sections
                text == call[t].content
            IN  /\ {secs[s].metadata.line : s \in 1..Len(secs)} = LinesStarting(text, Eq3)
                /\ Increasing([s \in 1..Len(secs) |-> secs[s].metadata.line])
                /\ \A s \in 1..Len(secs) :
                      Len(secs[s].examples)
                        = Cardinality({k \in LinesStarting(text, Dash3) :
                                          /\ secs[s].metadata.line < k
                                          /\ k < SectionEnd(secs, s, text)})

\* C13 witness: a Section returned with two Examples, the second one closed
\* by the end of the input.
C13_Witness ==
    \E t \in Callers :
        /\ SectionsReturned(t)
        /\ \E s \in 1..Len(this.sections) : Len(this.sections[s].examples) >= 2
        /\ frame.currentExample # Null

\* A list of lines without its blank lines at the start, and at the end.
RECURSIVE DropBlankHead(_)
DropBlankHead(ls) ==
    IF ls = <<>> THEN <<>>
    ELSE IF Trim(ls[1]) = <<>> THEN DropBlankHead(Tail(ls))
    ELSE ls

RECURSIVE DropBlankTail(_)
DropBlankTail(ls) ==
    IF ls = <<>> THEN <<>>
    ELSE IF Trim(Last(ls)) = <<>> THEN DropBlankTail(Front(ls))
    ELSE ls

\* The accumulated lines with the blank lines at both ends removed and
\* nothing else changed.
StripBlankLines(buffer) == Join(DropBlankTail(DropBlankHead(Split(buffer))))

\* C14: the source and the tree of an Example returned by the section-building
\* parser are the lines accumulated for it, without the blank lines at both
\* ends and otherwise verbatim, the indentation of the first line included.
C14_OnlyBlankLinesRemoved ==
    \A t \in Callers :
        (SectionsReturned(t) /\ frame # Null /\ frame.currentExample # Null
           /\ frame.currentSection # NoSection) =>
            LET ex == Last(this.sections[frame.currentSection].examples)
            IN  /\ ex.source = StripBlankLines(frame.currentExample.source)
                /\ ex.tree = StripBlankLines(frame.currentExample.tree)

\* Caller t's parse of the record-emitting parser has returned.
TestsReturned(t) == IsTests(this) /\ ParseEnded(t) /\ pc[t] = "done"

\* C15: the title of every record returned by the record-emitting parser,
\* started fresh, is the name extracted from the one header line of its
\* Section, the text between the runs of = at its ends; so for the last record.
C15_TitleFromOwnHeaderLine ==
    \A t \in Callers :
        TestsReturned(t) =>
            \A n \in 1..Len(this.tests) :
                this.tests[n].title
                  = HeaderName(Split(call[t].content)[this.tests[n].metadata.sectionLine],
                               "=")

\* C16: the README layout with two Sections, simple and two, parsed by a
\* fresh record-emitting parser gives two records, each with the name of its
\* Section as title and the source of its Section as code.
C16_ReadmeTwoSectionsParsed ==
    \A t \in Callers :
        (IsTests(this) /\ ParseEnded(t) /\ call[t].content = ReadmeTwoSections) =>
            /\ pc[t] = "done"
            /\ Len(this.tests) = 2
            /\ this.tests[1].title = Simple
            /\ this.tests[1].code = SourceLine
            /\ this.tests[2].title = SecondName
            /\ this.tests[2].code = SecondSource

\* The classification of a line by the markers it starts with.
IsSectionHeader(line) == LeadRun(line, {"="}) >= 3
IsExampleHeader(line) == LeadRun(line, {"-"}) >= 3

\* The step of the loop opens a Section, an Example, at the line it reads.
OpensSection ==
    IF IsTests(this)
    THEN /\ frame'.currentSection # Null
         /\ frame'.currentSection.metadata.line = frame.i + 1
    ELSE /\ Len(this'.sections) = Len(this.sections) + 1
         /\ frame'.currentSection = Len(this'.sections)
         /\ Last(this'.sections).metadata.line = frame.i + 1
OpensExample ==
    /\ frame'.currentExample # Null
    /\ frame'.currentExample.metadata.line = frame.i + 1

\* The loop of parse throws at the line it reads.
ThrowsAtLine ==
    /\ frame # Null /\ frame.i < Len(frame.lines)
    /\ pc[frame.caller] = "loop" /\ pc'[frame.caller] = "threw"

\* C17: a line opens a Section exactly when it starts with three or more =,
\* an Example exactly when it starts with three or more -, and every other
\* line, one with fewer markers or with white space before them included,
\* opens neither and raises no error.
C17_LineClassification ==
    [][ /\ LoopStep =>
              /\ OpensSection <=> IsSectionHeader(frame.lines[frame.i + 1])
              /\ OpensExample <=> IsExampleHeader(frame.lines[frame.i + 1])
        /\ ThrowsAtLine => IsExampleHeader(frame.lines[frame.i + 1])
      ]_vars

\* C17 witness: a parse that returned for a text with a line of one or two
\* markers and a line with a space before three markers, after a Section
\* header.
C17_Witness ==
    \E t \in Callers :
        /\ ParseEnded(t) /\ pc[t] = "done" /\ call[t].content # <<>>
        /\ LET lines == Split(call[t].content)
           IN  /\ IsSectionHeader(lines[1])
               /\ \E j \in 2..Len(lines) : LeadRun(lines[j], {"=", "-"}) \in 1..2
               /\ \E k \in 2..Len(lines) :
                     /\ StartsWith(lines[k], <<" ">>)
                     /\ LeadRun(TrimStart(lines[k]), {"=", "-"}) >= 3

\* C18: a Section with the headers ---first--- and ---second--- gives two
\* Examples, first and second in that order, each with the source and the
\* tree that follow its own header, trimmed: as the two records of the
\* record-emitting parser, and as the two Examples of the one Section of the
\* section-building parser.
C18_TwoExamplesInOneSection ==
    \A t \in Callers :
        (ParseEnded(t) /\ call[t].content = TwoDistinct) =>
            /\ pc[t] = "done"
            /\ IF IsTests(this)
               THEN /\ Len(this.tests) = 2
                    /\ "exampleName" \in DOMAIN this.tests[1].metadata
                    /\ this.tests[1].metadata.exampleName = <<"f", "i", "r", "s", "t">>
                    /\ this.tests[1].code = SourceLine
                    /\ this.tests[1].parsed = TreeLine
                    /\ "exampleName" \in DOMAIN this.tests[2].metadata
                    /\ this.tests[2].metadata.exampleName = <<"s", "e", "c", "o", "n", "d">>
                    /\ this.tests[2].code = SecondSource
                    /\ this.tests[2].parsed = SecondTree
               ELSE /\ Len(this.sections) = 1
                    /\ Len(this.sections[1].examples) = 2
                    /\ this.sections[1].examples[1].name = <<"f", "i", "r", "s", "t">>
                    /\ this.sections[1].examples[1].source = SourceLine
                    /\ this.sections[1].examples[1].tree = TreeLine
                    /\ this.sections[1].examples[2].name = <<"s", "e", "c", "o", "n", "d">>
                    /\ this.sections[1].examples[2].source = SecondSource
                    /\ this.sections[1].examples[2].tree = SecondTree

\* The tree (a) rendered with spaces inside the parentheses.
SpacedRendering == <<"(", " ", "a", " ", ")">>

\* The engine rendered ( a ) for the j-th item of caller t, whose expected
\* tree is (a).
SpacedForPlain(t, j) ==
    /\ Rendered(t, j) = SpacedRendering
    /\ ItemExpected(this, ValidateList(t)[j]) = TreeLine

\* C19: an item whose expected tree is (a) and for which the engine renders
\* ( a ) is a Fail: the normalized strings differ, the item is in the failing
\* list with both strings as they are, and not in the passing list.
C19_SpaceInsideParenthesesFails ==
    \A t \in Callers :
        Validating(t) =>
            \A j \in 1..val[t].k :
                SpacedForPlain(t, j) =>
                    /\ j \notin Range(val[t].from.passing)
                    /\ \E n \in 1..Len(val[t].from.failing) :
                          /\ val[t].from.failing[n] = j
                          /\ val[t].results.failing[n].expected = TreeLine
                          /\ val[t].results.failing[n].actual = SpacedRendering

\* C19 witness: a run that has returned with such an item.
C19_Witness ==
    \E t \in Callers :
        /\ ValidateDone(t)
        /\ \E j \in 1..val[t].k : SpacedForPlain(t, j)

\* C20: parse of the empty text returns an empty list and raises no error,
\* whatever the instance has parsed before.
C20_EmptyTextEmptyList ==
    \A t \in Callers :
        (ParseEnded(t) /\ call[t].content = <<>>) =>
            /\ pc[t] = "done"
            /\ ret[t].kind = "return"
            /\ ret[t].value = <<>>

\* C20 witness: parse of the empty text has returned on an instance that
\* holds what an earlier parse of the other caller left (the locals of that
\* earlier call are gone).
C20_Witness ==
    \E t \in Callers :
        /\ ParseEnded(t) /\ call[t].content = <<>>
        /\ frame = Null
        /\ \E u \in Callers \ {t} :
              ParseEnded(u) /\ pc[u] = "done" /\ call[u].content # <<>>
        /\ Returned(this) # <<>>

\* The line is made of the marker m and nothing else.
OnlyMarkers(line, m) == line # <<>> /\ LeadRun(line, {m}) = Len(line)

\* The --- lines of the Section whose header is line h of the text: those
\* after h with no === line in between.
DashLinesOf(content, h) ==
    LET eqs == LinesStarting(content, Eq3)
    IN  {k \in LinesStarting(content, Dash3) :
            /\ h < k
            /\ \A j \in eqs : ~(h < j /\ j < k)}

\* No Section is open in the locals f of parse.
NoSectionOpen(f) ==
    IF IsTests(this) THEN f.currentSection = Null ELSE f.currentSection = NoSection

\* A Section without Examples is in the list of the section-building parser,
\* with no Example, and no record of the record-emitting parser is of it.
EmptySectionsKept ==
    \A t \in Callers :
        /\ SectionsReturned(t) =>
              \A h \in LinesStarting(call[t].content, Eq3) :
                  \E s \in 1..Len(this.sections) :
                      /\ this.sections[s].metadata.line = h
                      /\ DashLinesOf(call[t].content, h) = {}
                            => this.sections[s].examples = <<>>
        /\ TestsReturned(t) =>
              \A n \in 1..Len(this.tests) :
                  DashLinesOf(call[t].content, this.tests[n].metadata.sectionLine) # {}

\* While the loop of parse runs, the Section and the Example open, and the
\* Sections and Examples built, whose header line is made of markers only
\* have the empty string as name.
MarkersOnlyNamedEmpty ==
    (frame # Null /\ pc[frame.caller] = "loop") =>
        /\ IF IsTests(this)
           THEN (/\ frame.currentSection # Null
                 /\ OnlyMarkers(frame.currentSection.metadata.rawHeaderLine, "="))
                    => frame.currentSection.name = <<>>
           ELSE \A s \in 1..Len(this.sections) :
                    /\ OnlyMarkers(this.sections[s].metadata.headerText, "=")
                          => this.sections[s].name = <<>>
                    /\ \A e \in 1..Len(this.sections[s].examples) :
                          OnlyMarkers(this.sections[s].examples[e].metadata.separator, "-")
                            => this.sections[s].examples[e].name = <<>>
        /\ (/\ frame.currentExample # Null
             /\ OnlyMarkers(frame.currentExample.metadata.separator, "-"))
              => frame.currentExample.name = <<>>

\* The loop of parse has thrown at a line made of markers only: then as any
\* --- line does when an Example is open and no Section is.
MarkersOnlyThrow ==
    (/\ frame # Null /\ pc[frame.caller] = "threw"
     /\ ret[frame.caller].error = "TypeError"
     /\ frame.i < Len(frame.lines)
     /\ \/ OnlyMarkers(frame.lines[frame.i + 1], "=")
        \/ OnlyMarkers(frame.lines[frame.i + 1], "-"))
        => /\ IsExampleHeader(frame.lines[frame.i + 1])
           /\ NoSectionOpen(frame)
           /\ frame.currentExample # Null

HasFile(r, filepath) ==
    \/ "filepath" \in DOMAIN r.metadata /\ r.metadata.filepath = filepath
    \/ "filepath" \in DOMAIN r /\ r.filepath = filepath

\* C22: every record returned by the record-emitting parser, started fresh,
\* has a name made of the name of its Section and the name of its Example, a
\* code, an expected tree, the file, the line of its Section header and the
\* line of its Example header.
C22_RecordFields ==
    \A t \in Callers :
        TestsReturned(t) =>
            LET lines == Split(call[t].content)
            IN  \A n \in 1..Len(this.tests) :
                    LET r == this.tests[n]
                    IN  /\ {"code", "parsed", "metadata"} \subseteq DOMAIN r
                        /\ {"sectionLine", "exampleLine"} \subseteq DOMAIN r.metadata
                        /\ HasFile(r, call[t].filepath)
                        /\ IsSectionHeader(lines[r.metadata.sectionLine])
                        /\ IsExampleHeader(lines[r.metadata.exampleLine])
                        /\ r.metadata.exampleLine
                              \in DashLinesOf(call[t].content, r.metadata.sectionLine)
                        /\ "name" \in DOMAIN r
                        /\ r.name = HeaderName(lines[r.metadata.sectionLine], "=")
                                      \o <<" ", "-", " ">>
                                      \o HeaderName(lines[r.metadata.exampleLine], "-")

\* What the list returned to caller t holds now: the field of the instance
\* when parse returned the field itself, else the list as it was returned.
ListHeldBy(t) == IF ret[t].alias THEN Returned(this) ELSE ret[t].value

\* C23: the list a parse call returned holds, whatever is called on the
\* instance afterwards, what it held when it was returned.
C23_ReturnedListImmutable ==
    \A t \in Callers :
        (ParseEnded(t) /\ pc[t] = "done") => ListHeldBy(t) = ret[t].value

\* The grammar engine could not be loaded by the command.
EngineNotLoaded ==
    /\ cli # Null
    /\ cli.load \in GrammarLoads
    /\ ~(cli.load = "module" \/ (IsTests(this) /\ cli.load = "language"))

\* C24: when the grammar engine cannot be loaded, the validate command has
\* exited with a status other than 0, validateCorpus is never called and so
\* nothing is read or parsed, and grammar.parse is never called.
C24_LoadFailureAborts ==
    EngineNotLoaded =>
        /\ cli.stage = "exited" /\ cli.exit # 0
        /\ pc["A"] = "idle" /\ call["A"] = Null
        /\ engineLog = <<>>
        /\ this = Fresh(this)

\* C24 witness: the grammar file exists, and neither require nor the
\* bindings could load it.
C24_Witness ==
    EngineNotLoaded /\ cli.load = "unloadable" /\ cli.stage = "exited"

\* The items a fresh parser gives validateCorpus for the file of caller t.
FreshItems(t) == Items(Parse(Fresh(this), call[t].content, call[t].filepath).this)

\* Nothing but validateCorpus has been called on the instance.
OnlyValidateCalls ==
    \A u \in Callers : call[u] # Null => call[u].op = "validateCorpus"

\* C25: with two validateCorpus calls for two files on one instance of the
\* record-emitting parser, in any interleaving, the report of each call is the
\* one of that call alone on a fresh parser: an entry for every item of its
\* own file, and for no other.
C25_ReportsIndependent ==
    \A t \in Callers :
        (IsTests(this) /\ ValidateDone(t) /\ OnlyValidateCalls) =>
            LET v     == val[t]
                items == FreshItems(t)
            IN  IF v.k # Len(items) THEN FALSE
                ELSE /\ \A n \in 1..Len(v.results.passing) :
                          v.results.passing[n]
                            = PassingEntry(this, items[v.from.passing[n]])
                     /\ \A n \in 1..Len(v.results.failing) :
                          v.results.failing[n]
                            = FailingEntry(this, items[v.from.failing[n]],
                                           Rendered(t, v.from.failing[n]))

\* The lines k..last of a text up to its first header line, the blank ones
\* left out, each followed by a line terminator.
RECURSIVE DescriptionBetween(_, _, _)
DescriptionBetween(lines, k, last) ==
    IF k > last \/ IsSectionHeader(lines[k]) \/ IsExampleHeader(lines[k]) THEN <<>>
    ELSE (IF Trim(lines[k]) = <<>> THEN <<>> ELSE lines[k] \o LF)
         \o DescriptionBetween(lines, k + 1, last)

\* C26: the description of a Section is the non-blank lines between its
\* header and its first --- line (or the next === line, or the end), in
\* order, each with a line terminator, trimmed at the ends: so for every
\* Section the section-building parser returns, for every record pushed at a
\* header by the record-emitting parser, and, untrimmed and up to the line
\* read, for the Section open in the record-emitting parser.
C26_Description ==
    /\ \A t \in Callers :
          /\ SectionsReturned(t) =>
                LET lines == Split(call[t].content)
                IN  \A s \in 1..Len(this.sections) :
                        this.sections[s].metadata.description
                          = Trim(DescriptionBetween(lines,
                                                    this.sections[s].metadata.line + 1,
                                                    Len(lines)))
          /\ TestsReturned(t) =>
                LET lines == Split(call[t].content)
                IN  \A n \in 1..Len(this.tests) :
                        "description" \in DOMAIN this.tests[n].metadata =>
                            this.tests[n].metadata.description
                              = Trim(DescriptionBetween(lines,
                                                        this.tests[n].metadata.sectionLine + 1,
                                                        Len(lines)))
    /\ (frame # Null /\ IsTests(this) /\ frame.currentSection # Null) =>
          frame.currentSection.metadata.description
            = DescriptionBetween(frame.lines, frame.currentSection.metadata.line + 1,
                                 frame.i)

\* C26 witness: the section-building parser has returned a Section with a
\* description of two lines and an Example that has source and tree.
C26_Witness ==
    \E t \in Callers :
        /\ SectionsReturned(t)
        /\ \E s \in 1..Len(this.sections) :
              /\ \E k \in 1..Len(this.sections[s].metadata.description) :
                    this.sections[s].metadata.description[k] = "\n"
              /\ this.sections[s].examples # <<>>
              /\ this.sections[s].examples[1].source # <<>>
              /\ this.sections[s].examples[1].tree # <<>>

\* The lines a..b of a text, each followed by a line terminator.
RECURSIVE LinesWithLF(_, _, _)
LinesWithLF(lines, a, b) ==
    IF a > b THEN <<>> ELSE lines[a] \o LF \o LinesWithLF(lines, a + 1, b)

\* The lines of the open Example read so far that satisfy P(line).
ExampleLinesWith(f, P(_)) ==
    {k \in (f.currentExample.metadata.line + 1)..f.i : P(f.lines[k])}

NotBlank(line) == Trim(line) # <<>>
StartsTree(line) == StartsWith(Trim(line), <<"(">>)

\* The least number of a non-empty set of numbers.
Least(S) == CHOOSE k \in S : \A j \in S : k <= j

\* C27: in an open Example the blank lines before the first line of content
\* are the only lines left out: the source is every line from the first
\* non-blank one up to the line before the switching line, and the tree is
\* the switching line and every line read after it, the blank ones included,
\* also when the source is empty.
C27_BlankLinesKeptInTree ==
    (frame # Null /\ frame.currentExample # Null /\ frame.i >= 1
        /\ NotBlank(frame.lines[frame.i])) =>
        LET content  == ExampleLinesWith(frame, NotBlank)
            switches == ExampleLinesWith(frame, StartsTree)
            srcEnd   == IF switches = {} THEN frame.i ELSE Least(switches) - 1
        IN  /\ frame.currentExample.source
                  = IF content = {} THEN <<>>
                    ELSE LinesWithLF(frame.lines, Least(content), srcEnd)
            /\ frame.currentExample.tree
                  = IF switches = {} THEN <<>>
                    ELSE LinesWithLF(frame.lines, Least(switches), frame.i)

\* A header line without its leading run of markers, its trailing run of
\* markers of any length, and the white space around what is left.
NameBetweenRuns(line, m) ==
    LET rest == SubSeq(line, LeadRun(line, {m}) + 1, Len(line))
    IN  Trim(SubSeq(rest, 1, Len(rest) - TrailRun(rest, {m})))

\* s neither begins nor ends with the marker or with white space.
CleanEnds(s, m) ==
    s # <<>> => /\ s[1] # m /\ s[Len(s)] # m
                /\ Trim(s) = s

\* The header line and the name of the Section being read.
OpenSectionHeader ==
    IF IsTests(this) THEN frame.currentSection.metadata.rawHeaderLine
    ELSE this.sections[frame.currentSection].metadata.headerText
OpenSectionName ==
    IF IsTests(this) THEN frame.currentSection.name
    ELSE this.sections[frame.currentSection].name
SectionIsOpen ==
    /\ frame # Null /\ pc[frame.caller] = "loop"
    /\ IF IsTests(this) THEN frame.currentSection # Null
       ELSE frame.currentSection # NoSection

\* C28: the name taken from a header line is the line without its leading
\* run of markers, its trailing run of markers of whatever length and the
\* white space around the rest, and so neither begins nor ends with the
\* marker or with white space.
C28_NameStripped ==
    /\ SectionIsOpen =>
            /\ OpenSectionName = NameBetweenRuns(OpenSectionHeader, "=")
            /\ CleanEnds(OpenSectionName, "=")
    /\ (frame # Null /\ pc[frame.caller] = "loop" /\ frame.currentExample # Null) =>
            /\ frame.currentExample.name
                  = NameBetweenRuns(frame.currentExample.metadata.separator, "-")
            /\ CleanEnds(frame.currentExample.name, "-")

\* C29: in the list the section-building parser returns, the Sections come
\* in file order at strictly increasing 1-based header lines, the Examples of
\* a Section likewise, and every Example is in the one Section whose header
\* is the last === line before the Example's --- line.
C29_ExampleInItsSection ==
    \A t \in Callers :
        SectionsReturned(t) =>
            LET secs == this.sections
                text == call[t].content
            IN  /\ Increasing([s \in 1..Len(secs) |-> secs[s].metadata.line])
                /\ \A s \in 1..Len(secs) :
                      LET exs == secs[s].examples
                      IN  /\ secs[s].metadata.line \in LinesStarting(text, Eq3)
                          /\ Increasing([e \in 1..Len(exs) |-> exs[e].metadata.line])
                          /\ \A e \in 1..Len(exs) :
                                /\ exs[e].metadata.line \in LinesStarting(text, Dash3)
                                /\ secs[s].metadata.line < exs[e].metadata.line
                                /\ exs[e].metadata.line < SectionEnd(secs, s, text)

\* C29 witness: several Sections returned, and an Example in one that is not
\* the first.
C29_Witness ==
    \E t \in Callers :
        /\ SectionsReturned(t)
        /\ \E s \in 2..Len(this.sections) : this.sections[s].examples # <<>>

\* The code and the expected tree of every item of a list of the parser t.
CodeAndTree(t, items) ==
    [k \in 1..Len(items) |->
        [code |-> ItemCode(t, items[k]), parsed |-> ItemExpected(t, items[k])]]

\* C30: the records the record-emitting parser returns for a text are the
\* (Section, Example) pairs the section-building parser returns for it, both
\* started fresh, one record a pair and in file order, the code being the
\* Example's source and the expected tree the Example's tree.
C30_FlattenedView ==
    \A t \in Callers :
        TestsReturned(t) =>
            LET r == Parse(FreshSections, call[t].content, call[t].filepath)
            IN  /\ ~r.threw
                /\ CodeAndTree(FreshTests, this.tests)
                      = CodeAndTree(FreshSections, SectionItems(r.value))

\* The number of tests a corpus file gives to a parser of its own.
TestsOfFile(k) ==
    Len(Parse(FreshTests, cli.files[k], CorpusFileNames[k]).value)

RECURSIVE SumOfTests(_)
SumOfTests(k) == IF k = 0 THEN 0 ELSE TestsOfFile(k) + SumOfTests(k - 1)

\* C31: when the extract command has gone through the corpus files of a
\* directory, the combined list has as many entries as the files have tests,
\* each file counted alone, and no record is in it twice.
C31_ExtractCollectsOnce ==
    (cli # Null /\ cli.stage = "extracted") =>
        /\ Len(cli.allTests) = SumOfTests(Len(cli.files))
        /\ \A i, j \in 1..Len(cli.allTests) :
              i # j => cli.allTests[i] # cli.allTests[j]

\* The --- lines of a text that come before its first === line.
Orphans(content) ==
    {k \in LinesStarting(content, Dash3) :
        \A j \in LinesStarting(content, Eq3) : k < j}

\* The header lines of the Examples in what parse returned.
ExampleLinesReturned ==
    IF IsTests(this)
    THEN {this.tests[k].metadata.exampleLine : k \in 1..Len(this.tests)}
    ELSE {SectionItems(this.sections)[k].example.metadata.line :
             k \in 1..Len(SectionItems(this.sections))}

\* C32: a text with Example headers before its first Section header, one or
\* several, is parsed to the end without an error, and none of these headers
\* gives an Example or a record to the result.
C32_OrphansHarmless ==
    \A t \in Callers :
        (ParseEnded(t) /\ Orphans(call[t].content) # {}) =>
            /\ pc[t] = "done"
            /\ ExampleLinesReturned \cap Orphans(call[t].content) = {}

\* The loop of parse has read the last line of the text.
LoopOver(t) ==
    /\ frame # Null /\ frame.caller = t
    /\ frame.i = Len(frame.lines)

\* No call of the engine by t has thrown.
EngineReturned(t) ==
    \A k \in 1..Len(EngineCalls(t)) : EngineCalls(t)[k].outcome # EngineThrows

\* C33: parse, once in its loop, goes through the lines and comes to the end
\* of the text; and validateCorpus, once it has its list, returns after one
\* call of the engine for each record, unless a call of the engine throws.
C33_ReachesDone ==
    /\ (pc["A"] = "loop") ~> LoopOver("A")
    /\ (pc["A"] = "validate")
          ~> \/ ValidateDone("A") /\ Len(EngineCalls("A")) = Len(ValidateList("A"))
             \/ ~EngineReturned("A")

====
